---- MODULE Spec2Model ----
(***************************************************************************)
(* Model of the notification daemon in src/main.py (class Notifications)   *)
(* together with the window fields it reads from                           *)
(* src/notification_window.py.  GLib's main loop is single threaded, so    *)
(* every D-Bus method, timer callback and script-message callback runs to  *)
(* completion: each is one action.                                         *)
(***************************************************************************)
EXTENDS Integers, Sequences, FiniteSets, TLC

\* ------------------------------------------------------------ bounds
\* Notify calls in a run of Spec.
MaxNotify == 3

\* Notify calls in a run of SpecScenario (the spec's 20-notification scenario).
MaxScenario == 20

\* Notify calls in a run of SpecStack.
MaxStack == 14

\* ------------------------------------------------- program constants
\* const.py is not among the sources; the values are those of the spec's
\* scenarios (padding 10, threshold 800).
NOTIFICATION_PADDING == 10

SCREEN_HEIGHT_THRESHOLD == 800

\* window._height set by create_notification_window
DefaultHeight == 100

\* _on_js_dimensions_result: lower clamp of the content height, and the margin added
MinContentHeight == 50

HeightMargin == 2

\* _on_js_dimensions_result: height after a failed measurement
FallbackHeight == 80

\* NotificationParser.__init__: expire_timeout, which Notify does not pass
ParserExpireTimeout == 5000

\* class ClosedReason
expired == 1

dismissed == 2

method == 3

\* ------------------------------------------------------ input domains
\* What the measurement of a window's content may yield: a content height
\* of 398 gives a window of height 400, which crosses the threshold on its
\* second shift.
Measurements == {[ok |-> TRUE, height |-> 398]}

\* app_name values of inbound requests
Apps == {"discord"}

\* What the router reads of a notification's body: whether it contains
\* "error" (in any case), and the first token the path pattern matches in it
\* ("" when none does).
Body(mentions_error, path) == [mentions_error |-> mentions_error, path |-> path]

Bodies == {Body(FALSE, "")}

\* A window as `hyprctl clients -j` lists it.
Client(cls, title, address) == [class |-> cls, title |-> title, address |-> address]

\* What the external commands of one user action do.
\*   hyprctl: "ok"; "fail" (non-zero return code); "missing" (FileNotFoundError);
\*            "badjson" (JSONDecodeError); "error" (any other exception, such as
\*            PermissionError)
\*   clients: the windows listed when hyprctl is "ok"
\*   launch:  running the application by name: "ok", "missing", "error"
\*   goto:    running `code --goto`: "ok", "missing"
Env(hyprctl, clients, launch, goto) ==
    [hyprctl |-> hyprctl, clients |-> clients, launch |-> launch, goto |-> goto]

NoEnv == Env("none", <<>>, "none", "none")

WmEnvs == {Env("ok", <<Client("discord", "general - discord", "0x1")>>, "ok", "ok")}

\* the requests Notify receives
Request(app_name, body) == [app_name |-> app_name, body |-> body, replaces_id |-> 0]

\* the same request naming an earlier notification to replace
Replacing(req, id) == [req EXCEPT !.replaces_id = id]

Requests == {Request(a, b) : a \in Apps, b \in Bodies}

\* expire_timeout values of inbound requests: server default, never, 3 s
Timeouts == {-1, 0, 3000}

\* action keys a notification's buttons may carry
ActionKeys == {"reply", "default"}

\* ids a D-Bus caller may pass to CloseNotification: every id Notify can
\* return in a run (an id above _counter has not been returned yet)
CallerIds == 1..MaxNotify

VARIABLES
    _counter,   \* Notifications._counter
    _nots,      \* Notifications._nots: the keys, in insertion order
    wins,       \* the Gtk windows still referenced: id -> fields
    timers,     \* ids whose GLib timeout source is pending
    closed,     \* id -> reasons of the NotificationClosed signals emitted so far
    returned,   \* the ids Notify returned, in call order
    out,        \* what the last handler emitted / called, in order
    last        \* the last handler run and its arguments

vars == <<_counter, _nots, wins, timers, closed, returned, out, last>>

\* ------------------------------------------------------------- helpers
Keys(seq) == {seq[i] : i \in 1..Len(seq)}

DelKey(seq, k) == SelectSeq(seq, LAMBDA x : x # k)

Min(S) == CHOOSE x \in S : \A y \in S : x <= y

\* The part of the state a handler of Notifications reads and writes.
\* raised: an exception has left the handler
St(n, w, c, o) == [nots |-> n, wins |-> w, closed |-> c, out |-> o, raised |-> FALSE]

\* signals and window-manager calls, as entries of out
SigClosed(id, reason) == [type |-> "NotificationClosed", id |-> id, arg |-> reason, key |-> ""]

SigAction(id, key) == [type |-> "ActionInvoked", id |-> id, arg |-> 0, key |-> key]

WmFocus(app) == [type |-> "focus", id |-> 0, arg |-> 0, key |-> app]

WmKeys(combo) == [type |-> "keys", id |-> 0, arg |-> 0, key |-> combo]

\* a subprocess the router runs: "clients" (hyprctl clients -j),
\* "focus_address", "focus_class" (hyprctl dispatch focuswindow), "launch"
\* (the application by name), "goto" (code --goto)
WmCall(what, target) == [type |-> what, id |-> 0, arg |-> 0, key |-> target]

\* timeout: the expire_timeout a Notify call carried; armed: the interval, in
\* seconds, of the timer it added; raised: the handler ended with an exception;
\* env: what the external commands of a user action do; replaces: the
\* replaces_id a Notify call carried
Op(name, id, key, bp, present, ret) ==
    [op |-> name, id |-> id, key |-> key, by_program |-> bp,
     present |-> present, ret |-> ret,
     timeout |-> 0, armed |-> 0, raised |-> FALSE, env |-> NoEnv,
     replaces |-> 0]

\* ------------------------------------------------- src/notification_window.py
\* create_notification_window: _height = 100, screen_pos = NOTIFICATION_PADDING
NewWindow(req) ==
    [screen_pos |-> NOTIFICATION_PADDING, _height |-> DefaultHeight,
     destroyed |-> FALSE, resized |-> FALSE,
     app |-> req.app_name, body |-> req.body]

\* _on_js_dimensions_result, the measured branch
MeasuredHeight(content_height) ==
    (IF content_height < MinContentHeight THEN MinContentHeight ELSE content_height)
        + HeightMargin

\* _on_js_dimensions_result: window._height after the callback
ResizedHeight(m) == IF m.ok THEN MeasuredHeight(m.height) ELSE FallbackHeight

\* ---------------------------------------------------------- src/main.py
\* GLib.timeout_add_seconds(notification.expire_timeout / 1000, ...): the
\* interval in seconds (PyGObject converts the float to an integer)
TimerInterval(expire_timeout) == expire_timeout \div 1000

\* (variant) the callback returns True: GLib keeps the source and calls it again
AfterFireRepeating(tm, id) == tm

\* the callback returns False: GLib removes the source
AfterFire(tm, id) == tm \ {id}

\* (variant) the id is derived from the size of the table, not from a counter
NextCounterFromTable(c) == Len(_nots) + 1

\* self._counter += 1
NextCounter(c) == c + 1

\* window.destroy()
Destroy(w, id) == [w EXCEPT ![id].destroyed = TRUE]

\* (variant) the signal is emitted without the "notification.id in self._nots" test
_close_window_unguarded(s, id) ==
    St(DelKey(s.nots, id), Destroy(s.wins, id),
       [s.closed EXCEPT ![id] = Append(@, expired)],
       Append(s.out, SigClosed(id, expired)))

\* (variant) a callback for an id that has left the table closes the oldest
\* record of the table in its place
_close_window_oldest(s, id) ==
    LET w == Destroy(s.wins, id) IN
    IF id \in Keys(s.nots)
    THEN St(DelKey(s.nots, id), w,
            [s.closed EXCEPT ![id] = Append(@, expired)],
            Append(s.out, SigClosed(id, expired)))
    ELSE IF s.nots = <<>> THEN St(s.nots, w, s.closed, s.out)
    ELSE St(Tail(s.nots), Destroy(w, s.nots[1]),
            [s.closed EXCEPT ![s.nots[1]] = Append(@, expired)],
            Append(s.out, SigClosed(s.nots[1], expired)))

\* Notifications._close_window(window, notification)
_close_window(s, id) ==
    LET w == Destroy(s.wins, id) IN
    IF id \in Keys(s.nots)
    THEN St(DelKey(s.nots, id), w,
            [s.closed EXCEPT ![id] = Append(@, expired)],
            Append(s.out, SigClosed(id, expired)))
    ELSE St(s.nots, w, s.closed, s.out)

\* Notifications._close_window_by_id(notification_id, reason)
_close_window_by_id(s, id, reason) ==
    IF id \in Keys(s.nots)
    THEN St(DelKey(s.nots, id), Destroy(s.wins, id),
            [s.closed EXCEPT ![id] = Append(@, reason)],
            Append(s.out, SigClosed(id, reason)))
    ELSE s

\* (variant) the comparison is made on the window's bottom edge
OnScreenBottomEdge(pos) == pos + DefaultHeight < SCREEN_HEIGHT_THRESHOLD

\* the comparison of the restack loop: the window stays on screen
OnScreen(pos) == pos < SCREEN_HEIGHT_THRESHOLD

\* (variant) a window is shifted by the padding alone, without its height
ShiftOnePaddingOnly(s, id) ==
    LET pos == s.wins[id].screen_pos + NOTIFICATION_PADDING
        moved == [s EXCEPT !.wins[id].screen_pos = pos]
    IN  IF OnScreen(pos) THEN moved ELSE _close_window(moved, id)

\* (variant) a window past the threshold is left alone instead of closed
ShiftOneNoClose(s, id) ==
    [s EXCEPT !.wins[id].screen_pos =
        s.wins[id].screen_pos + s.wins[id]._height + NOTIFICATION_PADDING]

\* the body of Notify's loop for one window of the snapshot
ShiftOne(s, id) ==
    LET pos == s.wins[id].screen_pos + s.wins[id]._height + NOTIFICATION_PADDING
        moved == [s EXCEPT !.wins[id].screen_pos = pos]
    IN  IF OnScreen(pos) THEN moved ELSE _close_window(moved, id)

\* for notf in list(self._nots.values()): the snapshot is taken before the loop
RECURSIVE RestackLoop(_, _, _)
RestackLoop(s, snapshot, i) ==
    IF i > Len(snapshot) THEN s
    ELSE RestackLoop(ShiftOne(s, snapshot[i]), snapshot, i + 1)

\* Notifications.Notify, from the window's creation to self._nots[...] = win
NotifyBody(s, id, req) ==
    LET created == [s EXCEPT !.wins = (id :> NewWindow(req)) @@ s.wins]
        shifted == RestackLoop(created, s.nots, 1)
    IN  [shifted EXCEPT !.nots = Append(shifted.nots, id)]

\* (variant) the closed-by-request signal is sent without looking the id up
CloseNotificationNoLookup(s, id, by_program) ==
    IF by_program = TRUE
    THEN [s EXCEPT !.nots = DelKey(s.nots, id),
                   !.out = Append(s.out, SigClosed(id, method))]
    ELSE s

\* (variant) the entry is deleted whatever by_program is
CloseNotificationAnyCaller(s, id, by_program) ==
    IF id \in Keys(s.nots) THEN [s EXCEPT !.nots = DelKey(s.nots, id)] ELSE s

\* Notifications.CloseNotification(id, by_program)
CloseNotificationBody(s, id, by_program) ==
    IF id \in Keys(s.nots) /\ by_program = TRUE
    THEN [s EXCEPT !.nots = DelKey(s.nots, id)]
    ELSE s

\* str.lower() on the application names of the model
Lower(name) == IF name = "Discord" THEN "discord" ELSE name

\* Python's `needle in hay` on the strings of the model: the application
\* names and class aliases against the classes and titles of the clients
ProperSubstrings ==
    {<<"code", "code-oss">>, <<"discord", "discordcanary">>,
     <<"discord", "general - discord">>, <<"firefox", "mozilla firefox">>}

Contains(needle, hay) ==
    needle = "" \/ needle = hay \/ <<needle, hay>> \in ProperSubstrings

\* Notifications._match_app_to_class: app_mappings.get(app_name, [app_name])
AppMappings(app) ==
    CASE app = "discord" -> {"discord", "discordcanary"}
      [] app = "telegram" -> {"telegram-desktop", "telegramdesktop", "org.telegram.desktop"}
      [] app = "whatsapp" -> {"whatsapp-for-linux", "whatsapp", "elecwhat"}
      [] app = "signal" -> {"signal", "org.signal.signal"}
      [] app = "code" -> {"code", "code-oss", "visual-studio-code"}
      [] app = "thunderbird" -> {"thunderbird", "mozilla-thunderbird"}
      [] app = "firefox" -> {"firefox", "firefox-esr"}
      [] app = "chrome" -> {"google-chrome", "chromium", "chromium-browser"}
      [] OTHER -> {app}

_match_app_to_class(app, window_class) ==
    \E cls \in AppMappings(app) : Contains(cls, window_class)

\* the test of the loop over the clients in _focus_application_window
ClientMatches(app, client) ==
    \/ Contains(app, client.class)
    \/ Contains(app, client.title)
    \/ _match_app_to_class(app, client.class)

\* the client the loop stops at (its index), 0 when it runs to the end
RECURSIVE TargetWindow(_, _, _)
TargetWindow(app, clients, i) ==
    IF i > Len(clients) THEN 0
    ELSE IF ClientMatches(app, clients[i]) THEN i
    ELSE TargetWindow(app, clients, i + 1)

\* What a call of the router yields: the subprocesses it ran, in order, and
\* whether an exception left it.
Ran(calls, raised) == [calls |-> calls, raised |-> raised]

\* _focus_application_window, the fallback: subprocess.run([app_name])
LaunchFallback(app, env) ==
    Ran(<<WmCall("launch", app)>>, env.launch = "error")

\* _focus_application_window, `if target_window:` - by address, else by
\* class, else on to the fallback
FocusTarget(app, env, target) ==
    IF target.address # ""
    THEN Ran(<<WmCall("focus_address", target.address)>>, FALSE)
    ELSE IF target.class # ""
    THEN Ran(<<WmCall("focus_class", target.class)>>, FALSE)
    ELSE LaunchFallback(app, env)

\* Notifications._focus_application_window(app_name)
_focus_application_window(app, env) ==
    LET listed == <<WmFocus(app), WmCall("clients", "")>>
        then(r) == Ran(listed \o r.calls, r.raised)
    IN  CASE env.hyprctl = "error" -> Ran(listed, TRUE)
          [] env.hyprctl \in {"fail", "missing", "badjson"} -> then(LaunchFallback(app, env))
          [] OTHER ->
               LET i == TargetWindow(app, env.clients, 1) IN
               IF i = 0 THEN then(LaunchFallback(app, env))
               ELSE then(FocusTarget(app, env, env.clients[i]))

\* Notifications._send_hyprland_keys: sleep, then hyprctl dispatch
\* sendshortcut; every exception is caught
_send_hyprland_keys(combo) == Ran(<<WmKeys(combo)>>, FALSE)

\* r, then (unless r raised) what next yields
AndThen(r, next) ==
    IF r.raised THEN r ELSE Ran(r.calls \o next.calls, next.raised)

Nothing == Ran(<<>>, FALSE)

\* (variant) the key combination is sent for every key the outer test admits
ChatKeysForAllThree(app, key) ==
    IF app = "discord" THEN _send_hyprland_keys("CTRL K")
    ELSE IF app \in {"telegram", "whatsapp"} THEN _send_hyprland_keys("CTRL F")
    ELSE Nothing

\* _handle_discord_action / _handle_messaging_app_action, reached for the
\* keys reply, open and show
ChatKeys(app, key) ==
    IF app = "discord"
    THEN (IF key = "reply" THEN _send_hyprland_keys("CTRL K") ELSE Nothing)
    ELSE IF app \in {"telegram", "whatsapp"}
    THEN (IF key = "reply" THEN _send_hyprland_keys("CTRL F") ELSE Nothing)
    ELSE Nothing

\* Notifications._handle_chat_app_action
_handle_chat_app_action(app, key, env) ==
    AndThen(_focus_application_window(app, env),
            IF key \in {"reply", "open", "show"} THEN ChatKeys(app, key) ELSE Nothing)

\* Notifications._handle_code_app_action
_handle_code_app_action(body, key, env) ==
    AndThen(_focus_application_window("code", env),
            IF key = "open" /\ body.mentions_error /\ body.path # ""
            THEN Ran(<<WmCall("goto", body.path)>>, env.goto = "missing")
            ELSE Nothing)

\* Notifications._handle_notification_action, the body of its try
RouteAction(app_name, body, key, env) ==
    LET app == Lower(app_name) IN
    IF app \in {"discord", "element", "telegram", "whatsapp", "signal"}
    THEN _handle_chat_app_action(app, key, env)
    ELSE IF app \in {"thunderbird", "evolution", "geary"}
    THEN _focus_application_window(app, env)
    ELSE IF app \in {"code", "visual studio code", "vscode"}
    THEN _handle_code_app_action(body, key, env)
    ELSE _focus_application_window(app, env)

\* (variant) without the try / except Exception
_handle_notification_action_uncaught(app_name, body, key, env) ==
    RouteAction(app_name, body, key, env)

\* Notifications._handle_notification_action: except Exception swallows
\* whatever the router raised
_handle_notification_action(app_name, body, key, env) ==
    Ran(RouteAction(app_name, body, key, env).calls, FALSE)

\* (variant) no early return when the id is not in the table
_on_action_invoked_unguarded(s, id, key, env) ==
    LET r == _handle_notification_action(s.wins[id].app, s.wins[id].body, key, env)
        routed == [s EXCEPT !.out = s.out \o r.calls]
        signalled == [routed EXCEPT !.out = Append(routed.out, SigAction(id, key))]
    IN  _close_window_by_id(signalled, id, dismissed)

\* (variant) the notification is closed before the action is routed and signalled
_on_action_invoked_close_first(s, id, key, env) ==
    IF id \notin Keys(s.nots) THEN s
    ELSE LET shut == _close_window_by_id(s, id, dismissed)
             r == _handle_notification_action(s.wins[id].app, s.wins[id].body, key, env)
             routed == [shut EXCEPT !.out = shut.out \o r.calls]
         IN  [routed EXCEPT !.out = Append(routed.out, SigAction(id, key))]

\* Notifications._on_action_invoked(notification_id, action_key)
_on_action_invoked(s, id, key, env) ==
    IF id \notin Keys(s.nots) THEN s
    ELSE LET r == _handle_notification_action(s.wins[id].app, s.wins[id].body, key, env)
             routed == [s EXCEPT !.out = s.out \o r.calls]
             signalled == [routed EXCEPT !.out = Append(routed.out, SigAction(id, key))]
         IN  IF r.raised THEN [routed EXCEPT !.raised = TRUE]
             ELSE _close_window_by_id(signalled, id, dismissed)

\* A window is freed once neither _nots nor a pending timer closure refers to it.
Referenced(w, nots, tm) ==
    [id \in (DOMAIN w) \cap (Keys(nots) \cup tm) |-> w[id]]

\* ------------------------------------------------------------- actions
Cur == St(_nots, wins, closed, <<>>)

\* a handler is inside subprocess.run
Waiting == last.op = "RouterWait"

Commit(s, tm) ==
    /\ _nots' = s.nots
    /\ wins' = Referenced(s.wins, s.nots, tm)
    /\ closed' = s.closed
    /\ out' = s.out
    /\ timers' = tm

Init ==
    /\ _counter = 0
    /\ _nots = <<>>
    /\ wins = <<>>
    /\ timers = {}
    /\ closed = [i \in {} |-> <<>>]
    /\ returned = <<>>
    /\ out = <<>>
    /\ last = Op("none", 0, "", FALSE, FALSE, 0)

\* D-Bus method Notify; the timer is armed whatever the requested timeout
NotifyWith(req, expire_timeout, limit) ==
    /\ ~Waiting
    /\ _counter < limit
    /\ LET id == NextCounter(_counter)
           s0 == [Cur EXCEPT !.closed = (id :> <<>>) @@ closed]
       IN  /\ _counter' = id
           /\ Commit(NotifyBody(s0, id, req), timers \cup {id})
           /\ returned' = Append(returned, id)
           /\ last' = [Op("Notify", id, "", FALSE, FALSE, id) EXCEPT
                          !.timeout = expire_timeout,
                          !.armed = TimerInterval(ParserExpireTimeout),
                          !.replaces = req.replaces_id]

\* Notify has no exception handler: when NotificationParser (parse_image on
\* the image-data hint) or create_notification_window (the template file, the
\* web view) raises, the call ends there, after the counter was incremented
\* and before the table, the other windows or the timers were touched.
NotifyRaises(limit) ==
    /\ ~Waiting
    /\ _counter < limit
    /\ LET id == NextCounter(_counter) IN
           /\ _counter' = id
           /\ closed' = (id :> <<>>) @@ closed
           /\ last' = [Op("NotifyRaised", id, "", FALSE, FALSE, 0) EXCEPT !.raised = TRUE]
    /\ out' = <<>>
    /\ UNCHANGED <<_nots, wins, timers, returned>>

Notify ==
    \/ \E req \in Requests, t \in Timeouts : NotifyWith(req, t, MaxNotify)
    \/ NotifyRaises(MaxNotify)

\* D-Bus method CloseNotification
CloseNotification ==
    \E id \in CallerIds, bp \in BOOLEAN :
        /\ ~Waiting
        /\ Commit(CloseNotificationBody(Cur, id, bp), timers)
        /\ last' = Op("CloseNotification", id, "", bp, id \in Keys(_nots), 0)
        /\ UNCHANGED <<_counter, returned>>

\* The script message of a window that is still on screen calls
\* _on_action_invoked.  For an id of the table the handler goes on to run
\* external commands with subprocess.run, which returns when the command
\* has ended: until then the handler, and the main loop with it, waits.
UserActionWith(keys, envs) ==
    \E id \in DOMAIN wins, key \in keys, env \in envs :
        /\ ~Waiting
        /\ ~wins[id].destroyed
        /\ IF id \in Keys(_nots)
           THEN /\ last' = [Op("RouterWait", id, key, FALSE, TRUE, 0) EXCEPT !.env = env]
                /\ out' = <<>>
                /\ UNCHANGED <<_nots, wins, timers, closed>>
           ELSE /\ Commit(_on_action_invoked(Cur, id, key, env), timers)
                /\ last' = Op("ActionInvoked", id, key, FALSE, FALSE, 0)
        /\ UNCHANGED <<_counter, returned>>

UserAction == UserActionWith(ActionKeys, WmEnvs)

\* the external commands have ended: _on_action_invoked runs to its end
ExternalReturns ==
    /\ Waiting
    /\ LET s == _on_action_invoked(Cur, last.id, last.key, last.env) IN
           /\ Commit(s, timers)
           /\ last' = [Op("ActionInvoked", last.id, last.key, FALSE, TRUE, 0) EXCEPT
                          !.env = last.env, !.raised = s.raised]
    /\ UNCHANGED <<_counter, returned>>

\* the GLib timeout of Notify fires: all timeouts have the same interval, so
\* they come due in the order they were added
TimerFires ==
    /\ ~Waiting
    /\ timers # {}
    /\ LET id == Min(timers) IN
           /\ Commit(_close_window(Cur, id), AfterFire(timers, id))
           /\ last' = Op("Timer", id, "", FALSE, id \in Keys(_nots), 0)
    /\ UNCHANGED <<_counter, returned>>

\* _on_js_dimensions_result: once per window, 100 ms after the page loaded
SetHeight(id, h) ==
    /\ ~Waiting
    /\ ~wins[id].destroyed
    /\ ~wins[id].resized
    /\ wins' = [wins EXCEPT ![id]._height = h, ![id].resized = TRUE]
    /\ out' = <<>>
    /\ last' = Op("Resize", id, "", FALSE, id \in Keys(_nots), 0)
    /\ UNCHANGED <<_counter, _nots, timers, closed, returned>>

Resize == \E id \in DOMAIN wins, m \in Measurements : SetHeight(id, ResizedHeight(m))

Next ==
    \/ Notify
    \/ CloseNotification
    \/ UserAction
    \/ ExternalReturns
    \/ TimerFires
    \/ Resize

Spec == Init /\ [][Next]_vars

\* The main loop dispatches a timeout source that is due whenever it is not
\* inside a handler; nothing bounds the time an external command takes.
SpecLive == Init /\ [][Next]_vars /\ WF_vars(TimerFires)

\* ---------------------------------------------------------------------
\* The scenario of the spec's section 8: notifications inserted one after
\* the other, every window at its default height, no close, no action; the
\* only timers that come due are those of records already off the table.
ScenarioNotify == \E req \in Requests, t \in Timeouts : NotifyWith(req, t, MaxScenario)

ScenarioTimer == TimerFires /\ Min(timers) \notin Keys(_nots)

ScenarioNext == ScenarioNotify \/ ScenarioTimer

SpecScenario == Init /\ [][ScenarioNext]_vars

\* ---------------------------------------------------------------------
\* The action router on one notification: every routed application, action
\* key and outcome of the external commands.
RouterApps ==
    {"discord", "Discord", "element", "telegram", "whatsapp", "signal",
     "thunderbird", "code", "vscode", "firefox"}

RouterKeys == {"reply", "open", "show", "default"}

RouterBodies == {Body(FALSE, ""), Body(TRUE, ""), Body(TRUE, "main.py")}

RouterRequests == {Request(a, b) : a \in RouterApps, b \in RouterBodies}

cDiscord == Client("discord", "general - discord", "0x1")

cCanary == Client("discordcanary", "", "")

cTitleOnly == Client("", "telegram", "")

cElecwhat == Client("elecwhat", "chat", "0x2")

cCode == Client("code-oss", "main.py", "0x3")

cFirefox == Client("firefox", "mozilla firefox", "0x4")

RouterClientLists ==
    {<<>>, <<cDiscord>>, <<cCanary>>, <<cTitleOnly>>, <<cElecwhat>>, <<cCode>>,
     <<cFirefox, cDiscord>>, <<cCanary, cDiscord>>, <<cTitleOnly, cCode>>}

RouterEnvs ==
    {Env("ok", cl, l, g) :
        cl \in RouterClientLists, l \in {"ok", "missing", "error"}, g \in {"ok", "missing"}}
    \cup
    {Env(h, <<>>, l, g) :
        h \in {"fail", "missing", "badjson", "error"},
        l \in {"ok", "missing", "error"}, g \in {"ok", "missing"}}

RouterNotify ==
    /\ _counter = 0
    /\ \E req \in RouterRequests, t \in Timeouts : NotifyWith(req, t, MaxNotify)

RouterAction == UserActionWith(RouterKeys, RouterEnvs)

RouterNext == RouterNotify \/ RouterAction \/ ExternalReturns

SpecRouter == Init /\ [][RouterNext]_vars

\* ---------------------------------------------------------------------
\* Notify with every replaces_id: 0 (a new notification) or the id of a
\* notification sent before, still in the table or not.
ReplaceIds == 0..MaxNotify

ReplaceRequests == {Replacing(req, id) : req \in Requests, id \in ReplaceIds}

ReplaceNotify ==
    \/ \E req \in ReplaceRequests, t \in Timeouts : NotifyWith(req, t, MaxNotify)
    \/ NotifyRaises(MaxNotify)

ReplaceNext == ReplaceNotify \/ Resize \/ TimerFires

SpecReplace == Init /\ [][ReplaceNext]_vars

\* ---------------------------------------------------------------------
\* A long run of Notify calls whose windows are either left at the default
\* height or measured, before the next Notify, at the smallest height a
\* measurement can give (content below the clamp of 50).
StackMeasurements == {[ok |-> TRUE, height |-> 10]}

StackNotify == \E req \in Requests, t \in Timeouts : NotifyWith(req, t, MaxStack)

StackResize ==
    /\ _counter \in DOMAIN wins
    /\ \E m \in StackMeasurements : SetHeight(_counter, ResizedHeight(m))

StackNext == StackNotify \/ StackResize

SpecStack == Init /\ [][StackNext]_vars

\* ---------------------------------------------------------------------
\* Vocabulary of the properties
Issued == 1.._counter

Live == Keys(_nots)

\* the ids Notify returned
Registered == {returned[i] : i \in DOMAIN returned}

Left == Registered \ Live

StrictlyIncreasing(seq) == \A i, j \in 1..Len(seq) : i < j => seq[i] < seq[j]

IsClosedSignal(e) == e.type = "NotificationClosed"

IsRouterCall(e) ==
    e.type \in {"focus", "clients", "focus_address", "focus_class", "launch", "goto", "keys"}

\* position of id in the insertion order of the table
RECURSIVE IndexOf(_, _, _)
IndexOf(seq, k, i) == IF seq[i] = k THEN i ELSE IndexOf(seq, k, i + 1)

\* padding plus the sum of (height + padding) over the first n records of the table
RECURSIVE StackBelow(_)
StackBelow(n) ==
    IF n = 0 THEN NOTIFICATION_PADDING
    ELSE StackBelow(n - 1) + wins[_nots[n]]._height + NOTIFICATION_PADDING

\* number of entries of seq equal to e
Count(seq, e) == Cardinality({i \in 1..Len(seq) : seq[i] = e})

\* ---------------------------------------------------------------------
\* C1: the ids returned by Notify are strictly increasing, whatever closes,
\* actions and timer firings come in between; no id is returned twice.
C1_ReturnedIdsStrictlyIncreasing == StrictlyIncreasing(returned)

C1_Witness == Len(returned) >= 2 /\ returned[1] \in Left

\* C2 (as claimed): every record that has left the table has exactly one
\* NotificationClosed signal emitted for its id.
C2_ExactlyOneClosedPerRemoval == \A id \in Left : Len(closed[id]) = 1

\* C3: no id ever has two NotificationClosed signals emitted for it, in any
\* interleaving of timer, CloseNotification, user action and forced closure.
C3_AtMostOneClosedPerId == \A id \in Issued : Len(closed[id]) <= 1

\* the timer fired for an id that another path had already closed
C3_Witness ==
    /\ last.op = "Timer"
    /\ ~last.present
    /\ Len(closed[last.id]) = 1

\* C4 (as claimed): CloseNotification on an id in the table removes the
\* record and emits exactly one NotificationClosed(id, 3).
C4_CloseEmitsClosedByRequest ==
    (last.op = "CloseNotification" /\ last.present) =>
        /\ last.id \notin Live
        /\ out = <<SigClosed(last.id, method)>>
        /\ closed[last.id] = <<method>>

\* C5: CloseNotification on an id that is not in the table changes neither
\* the table, the counter, the windows (their offsets included) nor the
\* timers, and emits nothing.
C5_CloseAbsentIsNoOp ==
    [][(last'.op = "CloseNotification" /\ last'.id \notin Keys(_nots)) =>
         /\ _nots' = _nots
         /\ _counter' = _counter
         /\ wins' = wins
         /\ timers' = timers
         /\ closed' = closed
         /\ out' = <<>>]_vars

\* CloseNotification(id, TRUE) ran on an id already out of the table
C5_Witness ==
    /\ last.op = "CloseNotification"
    /\ last.by_program
    /\ ~last.present
    /\ last.id \in Left

\* C6: a user action for an id that is not in the table emits no signal,
\* makes no window-manager call and leaves the table unchanged.
C6_ActionAbsentIsNoOp ==
    [][(last'.op = "ActionInvoked" /\ last'.id \notin Keys(_nots)) =>
         /\ out' = <<>>
         /\ _nots' = _nots
         /\ wins' = wins
         /\ timers' = timers
         /\ closed' = closed
         /\ _counter' = _counter]_vars

\* the action came from a window still on screen whose id had left the table
C6_Witness ==
    /\ last.op = "ActionInvoked"
    /\ ~last.present
    /\ last.id \in Left

\* C7: a user action for an id in the table yields, in this order, the
\* router's calls (a focus attempt first, key injection if any), exactly one
\* ActionInvoked(id, key), exactly one NotificationClosed(id, dismissed);
\* afterwards the id is not in the table.
C7_ActionOrder ==
    (last.op = "ActionInvoked" /\ last.present) =>
        LET n == Len(out) IN
        /\ n >= 3
        /\ out[1].type = "focus"
        /\ \A i \in 1..(n - 2) : IsRouterCall(out[i])
        /\ out[n - 1] = SigAction(last.id, last.key)
        /\ out[n] = SigClosed(last.id, dismissed)
        /\ closed[last.id] = <<dismissed>>
        /\ last.id \notin Live

\* an action with key injection ran on a record of the table
C7_Witness ==
    /\ last.op = "ActionInvoked"
    /\ last.present
    /\ \E i \in 1..Len(out) : out[i].type = "keys"

\* C8 (as claimed): the offset of every record of the table is padding plus
\* the sum of (height + padding) over the records inserted earlier that are
\* still in the table.
C8_OffsetIsSumOfEarlier ==
    \A p \in 1..Len(_nots) : wins[_nots[p]].screen_pos = StackBelow(p - 1)

\* C9: a record for which Notify's restack pass computes an offset at or
\* beyond the threshold is out of the table when the pass ends, with exactly
\* one NotificationClosed(id, expired) emitted for it; every record of the
\* table has an offset below the threshold.
C9_OffScreenIsClosed ==
    [][/\ last'.op = "Notify" =>
            \A id \in Keys(_nots) :
                (wins[id].screen_pos + wins[id]._height + NOTIFICATION_PADDING
                    >= SCREEN_HEIGHT_THRESHOLD) =>
                    /\ id \notin Keys(_nots')
                    /\ closed'[id] = <<expired>>
                    /\ Count(out', SigClosed(id, expired)) = 1
       /\ \A id \in Keys(_nots') : wins'[id].screen_pos < SCREEN_HEIGHT_THRESHOLD]_vars

\* a Notify whose restack pass closed a record
C9_Witness ==
    /\ last.op = "Notify"
    /\ \E i \in 1..Len(out) : IsClosedSignal(out[i])

C11_TimerExpiresRecord ==
    (last.op = "Timer" /\ last.present) =>
        /\ last.id \notin Live
        /\ out = <<SigClosed(last.id, expired)>>
        /\ closed[last.id] = <<expired>>
        /\ last.id \notin timers

C11_Witness == last.op = "Timer" /\ last.present /\ Live # {}

\* C12 (as claimed): Notify arms the timer only when the requested timeout
\* is not 0, and with the requested duration when it is positive.
C12_TimerFollowsRequest ==
    (last.op = "Notify" /\ ~last.raised) =>
        /\ last.timeout = 0 => last.id \notin timers
        /\ last.timeout > 0 =>
              (last.id \in timers /\ last.armed * 1000 = last.timeout)

\* C13 (as the code has it): for a chat application, the router injects a key
\* combination only for the action key reply, and only when the focus step
\* before it did not end in an error it does not handle: CTRL K for discord,
\* CTRL F for telegram and whatsapp; for every other key (open and show
\* included), and for element and signal, it injects none.
ChatApps == {"discord", "element", "telegram", "whatsapp", "signal"}

KeysInjected == {out[i].key : i \in {k \in DOMAIN out : out[k].type = "keys"}}

Launched == \E i \in DOMAIN out : out[i].type = "launch"

FocusFailed ==
    \/ last.env.hyprctl = "error"
    \/ Launched /\ last.env.launch = "error"

ChatActionDone ==
    /\ last.op = "ActionInvoked"
    /\ last.present
    /\ last.id \in DOMAIN wins
    /\ Lower(wins[last.id].app) \in ChatApps

ComboOf(app) ==
    IF app = "discord" THEN {"CTRL K"}
    ELSE IF app \in {"telegram", "whatsapp"} THEN {"CTRL F"}
    ELSE {}

C13_KeysOnReplyOnly ==
    ChatActionDone =>
        KeysInjected =
            IF last.key = "reply" /\ ~FocusFailed
            THEN ComboOf(Lower(wins[last.id].app))
            ELSE {}

C13_Witness ==
    /\ ChatActionDone
    /\ last.key = "reply"
    /\ wins[last.id].app = "Discord"
    /\ KeysInjected = {"CTRL K"}

\* C13 (as stated): the combination is injected for each of the keys reply,
\* open and show.
C13_KeysOnReplyOpenShow ==
    ChatActionDone =>
        KeysInjected =
            IF last.key \in {"reply", "open", "show"}
            THEN ComboOf(Lower(wins[last.id].app))
            ELSE {}

\* C14: whatever the external commands of the router did (listing failed,
\* executable missing, launch failed, any other error), a user action on a
\* record of the table ends without an exception, has emitted ActionInvoked
\* and then NotificationClosed(id, dismissed), and the record is off the
\* table.
C14_RouterFailuresAreSwallowed ==
    (last.op = "ActionInvoked" /\ last.present) =>
        /\ ~last.raised
        /\ last.id \notin Live
        /\ Len(out) >= 2
        /\ out[Len(out) - 1] = SigAction(last.id, last.key)
        /\ out[Len(out)] = SigClosed(last.id, dismissed)
        /\ closed[last.id] = <<dismissed>>

C14_Witness ==
    /\ last.op = "ActionInvoked"
    /\ last.present
    /\ last.env.hyprctl = "missing"
    /\ Launched
    /\ last.env.launch = "error"

\* C15: Notify never fails - whatever happens while the record is built or
\* its surface created, the record is in the table under the new id when
\* the call ends, that id is returned, and no id is consumed without having
\* been registered.
C15_NotifyAlwaysRegisters ==
    /\ last.op \in {"Notify", "NotifyRaised"} =>
          /\ ~last.raised
          /\ last.id \in Live
          /\ last.ret = last.id
    /\ Issued = Registered

\* C16: a record's expiry timer goes with the record - a timer is pending
\* only for an id of the table, so that no timer callback runs for an id
\* removed by CloseNotification, a user action or a forced closure.
C16_TimerCancelledWithRemoval == timers \subseteq Live

\* C17: after every completed operation, a window that is not destroyed
\* (still on screen) belongs to a record of the table.
C17_SurfaceGoesWithRecord ==
    ~Waiting => \A id \in DOMAIN wins : ~wins[id].destroyed => id \in Live

\* C18: the main loop does not wait on an external command of the router -
\* while one is outstanding, a pending timer can fire and a Notify request
\* can be served.
C18_LoopRunsWhileRouterWaits ==
    Waiting =>
        /\ timers # {} => ENABLED TimerFires
        /\ _counter < MaxNotify => ENABLED Notify

\* C19: when the listing succeeded and a listed window matches the
\* application (class or title contains its name, or the class matches an
\* alias), the first such window is focused - by address if it has one,
\* otherwise by class - and nothing is launched; the application is launched
\* by name only when no window matches.
FocusCalls ==
    SelectSeq(out, LAMBDA e : e.type \in {"focus_address", "focus_class", "launch"})

C19_MatchIsFocusedNotLaunched ==
    (last.op = "ActionInvoked" /\ last.present /\ last.env.hyprctl = "ok") =>
        LET app == out[1].key
            i == TargetWindow(app, last.env.clients, 1)
        IN  FocusCalls =
                IF i = 0 THEN <<WmCall("launch", app)>>
                ELSE IF last.env.clients[i].address # ""
                THEN <<WmCall("focus_address", last.env.clients[i].address)>>
                ELSE <<WmCall("focus_class", last.env.clients[i].class)>>

\* C20: when the timer callback runs for an id that is no longer in the
\* table, it emits no event, and the table, the id counter, the events
\* already emitted for every id and each remaining record's window (offset
\* included) are as before; no other record is removed or closed.
C20_StaleTimerIsNoOp ==
    [][(last'.op = "Timer" /\ ~last'.present) =>
          /\ out' = <<>>
          /\ _nots' = _nots
          /\ _counter' = _counter
          /\ closed' = closed
          /\ \A id \in Keys(_nots) : wins'[id] = wins[id]]_vars

\* a timer has fired for an id already off the table while other records
\* are in it
C20_Witness ==
    /\ last.op = "Timer"
    /\ ~last.present
    /\ last.id \in Left
    /\ Live # {}

\* C21: with timers that fire when due, every record Notify put in the
\* table is eventually off the table with its window destroyed, whether or
\* not a user action or CloseNotification occurs.
C21_EveryRecordEventuallyExpires ==
    \A id \in 1..MaxNotify :
        (id \in Live) ~> (id \notin Live /\ (id \notin DOMAIN wins \/ wins[id].destroyed))

\* C22: no two records of the table occupy overlapping vertical ranges
\* [screen_pos, screen_pos + _height), and a record inserted earlier is
\* below (at a larger offset than) every record inserted later.
Overlap(a, b) ==
    /\ a.screen_pos < b.screen_pos + b._height
    /\ b.screen_pos < a.screen_pos + a._height

C22_NoOverlapEarlierBelow ==
    \A p, q \in 1..Len(_nots) :
        p < q =>
            /\ ~Overlap(wins[_nots[p]], wins[_nots[q]])
            /\ wins[_nots[p]].screen_pos > wins[_nots[q]].screen_pos

\* C23: whatever its replaces_id, a Notify call takes a fresh id and adds
\* one table entry under it; a record whose id is the (non-zero) replaces_id
\* stays in the table, is not closed and is changed only by the shift of the
\* restack.
C23_ReplacesIdIsIgnored ==
    [][last'.op \in {"Notify", "NotifyRaised"} =>
          /\ _counter' = _counter + 1
          /\ _counter' \notin Keys(_nots)
          /\ Keys(_nots') \ Keys(_nots) = {_counter'}
          /\ LET r == last'.replaces IN
                 (r # 0 /\ r \in Keys(_nots)) =>
                     /\ r \in Keys(_nots')
                     /\ closed'[r] = closed[r]
                     /\ wins'[r] = [wins[r] EXCEPT
                            !.screen_pos = @ + wins[r]._height + NOTIFICATION_PADDING]]_vars

\* C24: CloseNotification with by_program = false changes nothing, also for
\* an id of the table - the table, every window, the pending timers, the
\* counter and the events emitted so far are as before, and the call emits
\* no event.
C24_CloseNotByProgramIsNoOp ==
    [][(last'.op = "CloseNotification" /\ ~last'.by_program) =>
          /\ out' = <<>>
          /\ UNCHANGED <<_nots, wins, timers, closed, _counter, returned>>]_vars

\* such a call has been made for an id that is in the table
C24_Witness ==
    /\ last.op = "CloseNotification"
    /\ ~last.by_program
    /\ last.present
    /\ last.id \in Live
    /\ last.id \in timers
    /\ ~wins[last.id].destroyed

\* C25: the table never holds more than 1 + k records, k being the largest
\* number of shifts by (minimum height + padding) that keeps an offset below
\* the threshold: each Notify shifts every record by at least that much and
\* closes those that reach the threshold.
MinWindowHeight == Min({DefaultHeight, FallbackHeight, MinContentHeight + HeightMargin})

ShiftsOnScreen ==
    CHOOSE k \in 0..SCREEN_HEIGHT_THRESHOLD :
        /\ NOTIFICATION_PADDING + k * (MinWindowHeight + NOTIFICATION_PADDING)
               < SCREEN_HEIGHT_THRESHOLD
        /\ NOTIFICATION_PADDING + (k + 1) * (MinWindowHeight + NOTIFICATION_PADDING)
               >= SCREEN_HEIGHT_THRESHOLD

C25_TableSizeBounded == Len(_nots) <= 1 + ShiftsOnScreen

\* the bound is attained, by windows of the minimum height under a new one
C25_Witness ==
    /\ last.op = "Notify"
    /\ Len(_nots) = 1 + ShiftsOnScreen
    /\ wins[_nots[1]]._height = MinWindowHeight
    /\ wins[_nots[Len(_nots)]]._height = DefaultHeight

====
